---------------------------- MODULE Spec2Model ----------------------------
(***************************************************************************)
(* Model of src/app.py: the crossword solver's pattern matcher             *)
(* (find_matches_with_meanings), definition cache (get_meaning), clue      *)
(* resolver (ai_guess_clue) and the two JSON routes (/solve, /solve_clue). *)
(*                                                                         *)
(* Python strings are sequences of one-character strings.  Python/JSON     *)
(* values whose type the code does not control (request fields, the       *)
(* dictionary payload, the model's JSON) are tagged records, so that a     *)
(* type error of the code is a case of the model and not an evaluation     *)
(* error of TLC.                                                           *)
(***************************************************************************)
EXTENDS Naturals, Integers, Sequences, FiniteSets, TLC

(***************************************************************************)
(* Bounds of the model and configuration of the program.                   *)
(***************************************************************************)
MaxRequests == 2
MaxTime == 2
PATTERN_RESULT_LIMIT == 2
AI_CACHE_TTL == 2
WEAK_MEANING_LEN == 5

(***************************************************************************)
(* Strings.                                                                *)
(***************************************************************************)
UpperAlpha ==
  <<"A","B","C","D","E","F","G","H","I","J","K","L","M",
    "N","O","P","Q","R","S","T","U","V","W","X","Y","Z">>

LowerAlpha ==
  <<"a","b","c","d","e","f","g","h","i","j","k","l","m",
    "n","o","p","q","r","s","t","u","v","w","x","y","z">>

UpperSet == {UpperAlpha[i] : i \in 1..26}

\* each upper-case letter's lower-case letter
ToLower == [u \in UpperSet |-> LowerAlpha[CHOOSE i \in 1..26 : UpperAlpha[i] = u]]

\* str.lower() on one character
LowerChar(c) == IF c \in UpperSet THEN ToLower[c] ELSE c

\* str.lower()
Lower(s) == [i \in 1..Len(s) |-> LowerChar(s[i])]

\* the characters str.strip() removes
IsSpace(c) == c \in {" ", "\t", "\n", "\r", "\f"}

\* str.strip(): drop leading and trailing whitespace
Strip(s) ==
  LET keep == {i \in 1..Len(s) : ~IsSpace(s[i])}
  IN  IF keep = {} THEN <<>>
      ELSE LET lo == CHOOSE i \in keep : \A j \in keep : i <= j
               hi == CHOOSE i \in keep : \A j \in keep : i >= j
           IN  SubSeq(s, lo, hi)

\* str.startswith(p)
StartsWith(s, p) == Len(s) >= Len(p) /\ SubSeq(s, 1, Len(p)) = p

\* str.replace(old, new), old non-empty: left to right, non-overlapping
RECURSIVE Replace(_, _, _)
Replace(s, old, new) ==
  IF Len(s) < Len(old) THEN s
  ELSE IF SubSeq(s, 1, Len(old)) = old
       THEN new \o Replace(SubSeq(s, Len(old) + 1, Len(s)), old, new)
       ELSE <<s[1]>> \o Replace(Tail(s), old, new)

(***************************************************************************)
(* Regular expressions, as far as _pattern_to_regex produces them.         *)
(***************************************************************************)
\* the characters re.escape puts a backslash before (Python >= 3.7)
ReSpecial ==
  {"(", ")", "[", "]", "{", "}", "?", "*", "+", "-", "|", "^", "$",
   "\\", ".", "&", "~", "#", " ", "\t", "\n", "\r", "\f"}

\* re.escape
RECURSIVE ReEscape(_)
ReEscape(s) ==
  IF s = <<>> THEN <<>>
  ELSE (IF s[1] \in ReSpecial THEN <<"\\", s[1]>> ELSE <<s[1]>>)
       \o ReEscape(Tail(s))

\* _pattern_to_regex without the ^ and $ it adds
PatternToRegex(pattern) ==
  LET esc == ReEscape(Lower(pattern))
  IN  Replace(Replace(esc, <<"\\", "_">>, <<".">>), <<"\\", "?">>, <<".">>)

\* the regex's atoms: a backslash makes the next character a literal,
\* a bare dot is any character but a newline
RECURSIVE ReAtoms(_)
ReAtoms(rx) ==
  IF rx = <<>> THEN <<>>
  ELSE IF rx[1] = "\\" /\ Len(rx) >= 2
       THEN <<[any |-> FALSE, c |-> rx[2]]>> \o ReAtoms(SubSeq(rx, 3, Len(rx)))
       ELSE <<[any |-> rx[1] = ".", c |-> rx[1]]>> \o ReAtoms(Tail(rx))

\* re.compile("^" + rx + "$").match(w): $ also matches before a final newline
RxMatch(rx, w) ==
  LET atoms == ReAtoms(rx)
      n == Len(atoms)
  IN  /\ \/ Len(w) = n
         \/ Len(w) = n + 1 /\ w[n + 1] = "\n"
      /\ \A i \in 1..n :
           IF atoms[i].any THEN w[i] # "\n" ELSE w[i] = atoms[i].c

(***************************************************************************)
(* Python / JSON values.                                                   *)
(***************************************************************************)
JNull == [t |-> "null"]
JStr(s) == [t |-> "str", s |-> s]
JNum(n) == [t |-> "num", n |-> n]
JList(xs) == [t |-> "list", items |-> xs]
JObj(f) == [t |-> "obj", fields |-> f]
\* the outcome of an expression that raises
Raised == [t |-> "raise"]

\* bool(v)
Truthy(v) ==
  CASE v.t = "null" -> FALSE
    [] v.t = "str" -> v.s # <<>>
    [] v.t = "num" -> v.n # 0
    [] v.t = "list" -> v.items # <<>>
    [] v.t = "obj" -> DOMAIN v.fields # {}


\* the keys the code looks up, as Python strings
KeyChars(k) ==
  CASE k = "meanings" -> <<"m","e","a","n","i","n","g","s">>
    [] k = "definitions" -> <<"d","e","f","i","n","i","t","i","o","n","s">>
    [] k = "definition" -> <<"d","e","f","i","n","i","t","i","o","n">>
    [] k = "word" -> <<"w","o","r","d">>
    [] k = "meaning" -> <<"m","e","a","n","i","n","g">>

IsSubstr(p, s) ==
  \E i \in 1..(Len(s) + 1) :
    i + Len(p) - 1 <= Len(s) /\ SubSeq(s, i, i + Len(p) - 1) = p

\* `k in v` raises TypeError unless v is a container
InRaises(v) == v.t \notin {"obj", "list", "str"}

\* `k in v` for a string key k
PyIn(k, v) ==
  CASE v.t = "obj" -> k \in DOMAIN v.fields
    [] v.t = "list" -> \E i \in 1..Len(v.items) : v.items[i] = JStr(KeyChars(k))
    [] v.t = "str" -> IsSubstr(KeyChars(k), v.s)
    [] OTHER -> FALSE

\* v[k] for a string key k: KeyError or TypeError otherwise
PyIndex(v, k) ==
  IF v.t = "obj" /\ k \in DOMAIN v.fields THEN v.fields[k] ELSE Raised

\* v[0]: IndexError, KeyError or TypeError otherwise
PyItem0(v) ==
  CASE v.t = "list" /\ v.items # <<>> -> v.items[1]
    [] v.t = "str" /\ v.s # <<>> -> JStr(<<v.s[1]>>)
    [] OTHER -> Raised

\* v.get(k, default): AttributeError unless v is a dict
PyGet(v, k, default) ==
  IF v.t # "obj" THEN Raised
  ELSE IF k \in DOMAIN v.fields THEN v.fields[k] ELSE default

(***************************************************************************)
(* get_meaning: the dictionary service's responses and what the code       *)
(* extracts from them.                                                     *)
(***************************************************************************)
SentinelText ==
  <<"M","e","a","n","i","n","g"," ","n","o","t"," ","f","o","u","n","d",".">>

\* meaning = "Meaning not found."
Sentinel == JStr(SentinelText)

GoodText == <<"a"," ","p","e","t">>

\* lines 76-77, given the first entry's "meanings" value
DefinitionOf(meanings) ==
  IF ~Truthy(meanings) THEN Sentinel
  ELSE LET m0 == PyItem0(meanings)
       IN  IF m0.t = "raise" \/ InRaises(m0) THEN Sentinel
           ELSE IF ~PyIn("definitions", m0) THEN Sentinel
           ELSE LET defs == PyIndex(m0, "definitions")
                IN  IF defs.t = "raise" \/ ~Truthy(defs) THEN Sentinel
                    ELSE LET d0 == PyItem0(defs)
                             got == IF d0.t = "raise" THEN Raised
                                    ELSE PyGet(d0, "definition", Sentinel)
                         IN  IF got.t = "raise" THEN Sentinel ELSE got

\* lines 66-79: the meaning get_meaning computes from a response; every
\* exception inside the try leaves the sentinel
ExtractMeaning(resp) ==
  IF resp.kind # "http" \/ resp.status # 200 THEN Sentinel
  ELSE LET data == resp.body
       IN  IF data.t # "list" \/ ~Truthy(data) THEN Sentinel
           ELSE LET e0 == data.items[1]
                IN  IF InRaises(e0) THEN Sentinel
                    ELSE IF ~PyIn("meanings", e0) THEN Sentinel
                    ELSE LET meanings == PyIndex(e0, "meanings")
                         IN  IF meanings.t = "raise" THEN Sentinel
                             ELSE DefinitionOf(meanings)

\* a payload [{"meanings": [{"definitions": [d]}]}]
EntryWithDefinition(d) ==
  JList(<<JObj([meanings |-> JList(<<JObj([definitions |-> JList(<<d>>)])>>)])>>)

\* requests.get raised (connection error, timeout)
RespException == [kind |-> "exc"]
RespHttp(status, body) == [kind |-> "http", status |-> status, body |-> body]

\* the responses that are failures of the lookup
FailureResponses ==
  { RespException,
    RespHttp(404, JObj([title |-> JStr(<<"n","o">>)])),
    RespHttp(200, Raised),                                  \* r.json() raises
    RespHttp(200, JObj([title |-> JStr(<<"n","o">>)])),     \* not a list
    RespHttp(200, JList(<<>>)),                             \* empty list
    RespHttp(200, JList(<<JNum(5)>>)),                      \* entry not an object
    RespHttp(200, JList(<<JObj([word |-> JStr(<<"c">>)])>>)),   \* no "meanings"
    RespHttp(200, JList(<<JObj([meanings |-> JList(<<>>)])>>)), \* no meaning
    RespHttp(200, JList(<<JObj([meanings |-> JNull])>>)),
    RespHttp(200, JList(<<JObj([meanings |->
                    JList(<<JObj([partOfSpeech |-> JStr(<<"n">>)])>>)])>>)),
    RespHttp(200, JList(<<JObj([meanings |->
                    JList(<<JObj([definitions |-> JList(<<>>)])>>)])>>)),
    RespHttp(200, EntryWithDefinition(JStr(<<"x">>))),      \* definition entry not an object
    RespHttp(200, EntryWithDefinition(JObj([example |-> JStr(<<"x">>)]))),
    RespHttp(200, EntryWithDefinition(JObj([definition |-> JNull]))),
    RespHttp(200, EntryWithDefinition(JObj([definition |-> JNum(5)]))) }

\* a well-formed answer
GoodResponse == RespHttp(200, EntryWithDefinition(JObj([definition |-> JStr(GoodText)])))

Responses == FailureResponses \cup {GoodResponse}

(***************************************************************************)
(* The word index and the pattern matcher's pure part.                     *)
(***************************************************************************)
\* WORD_LIST: stripped, lowercased, non-empty lines of words.txt
WORD_LIST == << <<"c","a","t">>, <<"c","a","r">>, <<"c","o","t">> >>

RECURSIVE SelectMatches(_, _)
SelectMatches(rx, ws) ==
  IF ws = <<>> THEN <<>>
  ELSE (IF RxMatch(rx, ws[1]) THEN <<ws[1]>> ELSE <<>>)
       \o SelectMatches(rx, Tail(ws))

\* line 54: [w for w in WORD_LIST if rx.match(w)]
MatchSeq(pattern) == SelectMatches(PatternToRegex(pattern), WORD_LIST)

TruncateOneMore(ms) ==
  SubSeq(ms, 1, IF Len(ms) <= PATTERN_RESULT_LIMIT THEN Len(ms)
                ELSE PATTERN_RESULT_LIMIT + 1)

\* line 56: matches[:PATTERN_RESULT_LIMIT]
Truncate(ms) ==
  SubSeq(ms, 1, IF Len(ms) < PATTERN_RESULT_LIMIT THEN Len(ms)
                ELSE PATTERN_RESULT_LIMIT)

(***************************************************************************)
(* The language model's outcomes and what lines 112-125 make of them.      *)
(***************************************************************************)
ErrorWord == <<"E","r","r","o","r">>
AiErrorText == <<"A","I"," ","e","r","r","o","r",":"," ","x">>
AiErrorMarker == <<"a","i"," ","e","r","r","o","r">>

\* line 125
ErrorEntry == JObj([word |-> JStr(ErrorWord), meaning |-> JStr(AiErrorText)])

\* the create call raised
ModelException == [kind |-> "exc"]
\* the call returned text; json is json.loads(text), Raised when it raises
ModelText(json) == [kind |-> "text", json |-> json]

\* lines 112-125: guesses after the try block
GuessesOf(outcome) ==
  IF outcome.kind = "exc" THEN <<ErrorEntry>>
  ELSE IF outcome.json.t = "raise" THEN <<ErrorEntry>>
  ELSE IF outcome.json.t = "list" THEN outcome.json.items
  ELSE <<>>

(***************************************************************************)
(* State.                                                                  *)
(***************************************************************************)
VARIABLES
  dict_cache,   \* _dict_cache: lowercased word -> meaning
  ai_cache,     \* _ai_cache: cache key -> [ts, data]
  dict_lock,    \* _dict_cache_lock: the thread holding it, 0 when free
  ai_lock,      \* _ai_cache_lock: the thread holding it, 0 when free
  clock,        \* time.time()
  configured,   \* OPENAI_CLIENT is not None and OPENAI_API_KEY is set
  th,           \* each request thread's position and locals
  nreq,         \* requests received so far
  gmHist,       \* history: lowercased word -> value the last returned get_meaning gave
  aiHist        \* history: <<clue, pattern>> -> the last finished ai_guess_clue call

vars == <<dict_cache, ai_cache, dict_lock, ai_lock, clock, configured, th,
          nreq, gmHist, aiHist>>

NumThreads == 2
Threads == 1..NumThreads

EmptyMap == [x \in {} |-> 0]
Put(f, k, v) == [x \in (DOMAIN f) \cup {k} |-> IF x = k THEN v ELSE f[x]]
NoCall == [some |-> FALSE]

\* a thread between requests
IdleLocals ==
  [ pc |-> "idle", op |-> "none",
    req |-> [clue |-> JNull, pattern |-> JNull],   \* the request body's fields
    clue |-> <<>>, pattern |-> JNull,              \* the handler's clue and pattern
    cache_key |-> <<>>, now |-> 0,
    guesses |-> <<>>, gi |-> 0, enriched |-> <<>>,
    matched |-> <<>>, matches |-> <<>>, results |-> <<>>,
    fmRet |-> "none", gmRet |-> "none",
    word |-> <<>>, wl |-> <<>>, r |-> RespException, meaning |-> JNull,
    response |-> <<>>, status |-> 0,
    \* history of this request
    nModel |-> 0, nDict |-> 0, hit |-> FALSE, expired |-> FALSE,
    modelExc |-> FALSE,
    candidates |-> <<>>, answer |-> NoCall,
    prev |-> NoCall, gmPrior |-> NoCall, gmHttp |-> FALSE, gmLast |-> NoCall ]

\* data.get(k) or ""  (the routes, lines 275, 285, 286)
OrEmpty(v) == IF Truthy(v) THEN v ELSE JStr(<<>>)

(***************************************************************************)
(* The handlers' local control flow between two shared or external steps.  *)
(***************************************************************************)
\* an exception leaves the handler: Flask answers 500
Raise(l) == [l EXCEPT !.pc = "raised", !.status = 500]

\* the call get_meaning(word) from the site ret
CallGetMeaning(l, word, ret) ==
  [l EXCEPT !.pc = "gm_acq1", !.word = word, !.wl = Lower(word),
            !.gmRet = ret, !.gmHttp = FALSE]

IsWeakNoMarker(meaning) == Len(meaning) < WEAK_MEANING_LEN

\* line 145: the meaning is missing or weak
IsWeak(meaning) ==
  Len(meaning) < WEAK_MEANING_LEN \/ StartsWith(Lower(meaning), AiErrorMarker)

\* lines 139-147 from guess number l.gi on, up to the next get_meaning call
RECURSIVE EnrichLoop(_)
EnrichLoop(l) ==
  IF l.gi > Len(l.guesses) THEN [l EXCEPT !.pc = "ai_acq2"]
  ELSE LET g == l.guesses[l.gi]
           wv == PyGet(g, "word", JNull)
           w0 == IF wv.t = "raise" THEN Raised ELSE OrEmpty(wv)
       IN  IF w0.t # "str" THEN Raise(l)
           ELSE IF Strip(w0.s) = <<>> THEN EnrichLoop([l EXCEPT !.gi = @ + 1])
           ELSE LET mv == PyGet(g, "meaning", JStr(<<>>))
                IN  IF mv.t # "str" THEN Raise(l)
                    ELSE IF IsWeak(Strip(mv.s))
                         THEN CallGetMeaning(l, Strip(w0.s), "enrich")
                         ELSE EnrichLoop(
                                [l EXCEPT !.gi = @ + 1,
                                          !.enriched = Append(@,
                                             [word |-> Strip(w0.s),
                                              meaning |-> JStr(Strip(mv.s))])])

\* line 138
StartEnrich(l, guesses) ==
  EnrichLoop([l EXCEPT !.guesses = guesses, !.candidates = guesses,
                       !.gi = 1, !.enriched = <<>>])

\* find_matches_with_meanings' result as the guesses of ai_guess_clue
AsGuesses(results) ==
  [i \in 1..Len(results) |->
     JObj([word |-> JStr(results[i].word), meaning |-> results[i].meaning])]

\* line 57 from the next unanswered match on, and the return to the caller
FmLoop(l) ==
  IF Len(l.results) < Len(l.matches)
  THEN CallGetMeaning(l, l.matches[Len(l.results) + 1], "fm")
  ELSE IF l.fmRet = "solve"
       THEN [l EXCEPT !.pc = "done", !.status = 200, !.response = l.results]
       ELSE StartEnrich(l, AsGuesses(l.results))

\* lines 53-56
FindMatches(l, pattern, ret) ==
  FmLoop([l EXCEPT !.matched = MatchSeq(pattern),
                   !.matches = Truncate(MatchSeq(pattern)),
                   !.results = <<>>, !.fmRet = ret])

\* get_meaning returns meaning to its call site
AfterGetMeaning(l0, meaning) ==
  LET l == [l0 EXCEPT !.r = RespException,
                      !.gmLast = [some |-> TRUE, wl |-> l0.wl, value |-> meaning,
                                  http |-> l0.gmHttp, prior |-> l0.gmPrior]]
  IN  IF l.gmRet = "fm"
      THEN FmLoop([l EXCEPT !.results =
                     Append(@, [word |-> l.word, meaning |-> meaning])])
      ELSE EnrichLoop([l EXCEPT !.gi = @ + 1,
                                !.enriched =
                     Append(@, [word |-> l.word, meaning |-> meaning])])

\* line 130-131: the filter's test of one guess raises
FilterRaises(g) ==
  g.t = "obj" /\ "word" \in DOMAIN g.fields /\ g.fields["word"].t # "str"

\* line 130-131: the filter keeps the guess
FilterKeeps(rx, g) ==
  g.t = "obj" /\ "word" \in DOMAIN g.fields /\ RxMatch(rx, Lower(g.fields["word"].s))

RECURSIVE FilterGuesses(_, _)
FilterGuesses(rx, gs) ==
  IF gs = <<>> THEN <<>>
  ELSE (IF FilterKeeps(rx, gs[1]) THEN <<gs[1]>> ELSE <<>>)
       \o FilterGuesses(rx, Tail(gs))

\* lines 127-138, with the guesses of lines 94-125
AfterModel(l, guesses) ==
  IF guesses # <<>> /\ Truthy(l.pattern)
  THEN IF \E i \in 1..Len(guesses) : FilterRaises(guesses[i])
       THEN Raise(l)
       ELSE LET kept == FilterGuesses(PatternToRegex(l.pattern.s), guesses)
            IN  IF kept = <<>> THEN FindMatches(l, l.pattern.s, "clue")
                ELSE StartEnrich(l, kept)
  ELSE IF Truthy(l.pattern) THEN FindMatches(l, l.pattern.s, "clue")
  ELSE StartEnrich(l, guesses)

\* a get_meaning call starts: what the history holds for its word
Stamp(l, hist) ==
  IF l.pc = "gm_acq1"
  THEN [l EXCEPT !.gmPrior = IF l.wl \in DOMAIN hist
                             THEN [some |-> TRUE, value |-> hist[l.wl]]
                             ELSE NoCall]
  ELSE l

(***************************************************************************)
(* Actions.                                                                *)
(***************************************************************************)
SetLocals(t, l) == \E x \in {l} : th' = [th EXCEPT ![t] = Stamp(x, gmHist)]

\* the same, when this step's get_meaning return enters the history
SetLocalsAfter(t, l, hist) ==
  \E x \in {l} : th' = [th EXCEPT ![t] = Stamp(x, hist)]

AllIdle == \A u \in Threads : th[u].pc = "idle"

\* requests one at a time: the next one arrives when the last one is answered
\* (which worker thread serves it makes no difference: the first one does)
Serial(t) == t = 1 /\ AllIdle

\* line 87
CacheKey(clue, pattern) ==
  Lower(Strip(clue) \o <<"|">> \o Strip(OrEmpty(pattern).s))

\* lines 276, 287: the route answers [] at once
IsBlankUnstripped(field) == OrEmpty(field).s = <<>>

IsBlank(field) == Strip(OrEmpty(field).s) = <<>>

\* POST /solve with body {"pattern": field}  (lines 272-280)
SolveRequest(t, field) ==
  /\ th[t].pc = "idle"
  /\ nreq < MaxRequests
  /\ nreq' = nreq + 1
  /\ LET l == [IdleLocals EXCEPT !.op = "solve",
                                 !.req = [clue |-> JNull, pattern |-> field]]
     IN  IF IsBlank(field)
         THEN SetLocals(t, [l EXCEPT !.pc = "done", !.status = 200,
                                     !.response = <<>>])
         ELSE LET pattern == Strip(OrEmpty(field).s)
              IN  SetLocals(t, FindMatches([l EXCEPT !.pattern = JStr(pattern)],
                                           pattern, "solve"))
  /\ UNCHANGED <<dict_cache, ai_cache, dict_lock, ai_lock, clock, configured,
                 gmHist, aiHist>>

\* POST /solve_clue with body {"clue": cfield, "pattern": pfield}
\* (lines 282-291), up to the first lock of ai_guess_clue (lines 87-88)
ClueRequest(t, cfield, pfield) ==
  /\ th[t].pc = "idle"
  /\ nreq < MaxRequests
  /\ nreq' = nreq + 1
  /\ LET l == [IdleLocals EXCEPT !.op = "clue",
                                 !.req = [clue |-> cfield, pattern |-> pfield]]
         clue == Strip(OrEmpty(cfield).s)
         pattern == IF IsBlank(pfield) THEN JNull
                    ELSE JStr(Strip(OrEmpty(pfield).s))
     IN  IF IsBlank(cfield)
         THEN SetLocals(t, [l EXCEPT !.pc = "done", !.status = 200,
                                     !.response = <<>>])
         ELSE SetLocals(t, [l EXCEPT !.pc = "ai_acq1",
                                     !.clue = clue, !.pattern = pattern,
                                     !.cache_key = CacheKey(clue, pattern),
                                     !.now = clock,
                                     !.prev = IF <<clue, pattern>> \in DOMAIN aiHist
                                              THEN aiHist[<<clue, pattern>>]
                                              ELSE NoCall])
  /\ UNCHANGED <<dict_cache, ai_cache, dict_lock, ai_lock, clock, configured,
                 gmHist, aiHist>>

\* line 62 and line 81: with _dict_cache_lock
GmAcquire(t) ==
  /\ th[t].pc \in {"gm_acq1", "gm_acq2"}
  /\ dict_lock = 0
  /\ dict_lock' = t
  /\ th' = [th EXCEPT ![t].pc = IF @ = "gm_acq1" THEN "gm_check" ELSE "gm_store"]
  /\ UNCHANGED <<dict_cache, ai_cache, ai_lock, clock, configured, nreq,
                 gmHist, aiHist>>

GmCheckKeepsLock(t) ==
  /\ th[t].pc = "gm_check"
  /\ IF th[t].wl \in DOMAIN dict_cache
     THEN /\ dict_lock' = 0
          /\ gmHist' = Put(gmHist, th[t].wl, dict_cache[th[t].wl])
          /\ SetLocalsAfter(t, AfterGetMeaning(th[t], dict_cache[th[t].wl]),
                            Put(gmHist, th[t].wl, dict_cache[th[t].wl]))
     ELSE /\ dict_lock' = dict_lock
          /\ gmHist' = gmHist
          /\ th' = [th EXCEPT ![t].pc = "gm_http"]
  /\ UNCHANGED <<dict_cache, ai_cache, ai_lock, clock, configured, nreq, aiHist>>

\* lines 63-64
GmCheck(t) ==
  /\ th[t].pc = "gm_check"
  /\ dict_lock' = 0
  /\ IF th[t].wl \in DOMAIN dict_cache
     THEN /\ gmHist' = Put(gmHist, th[t].wl, dict_cache[th[t].wl])
          /\ SetLocalsAfter(t, AfterGetMeaning(th[t], dict_cache[th[t].wl]),
                            Put(gmHist, th[t].wl, dict_cache[th[t].wl]))
     ELSE /\ gmHist' = gmHist
          /\ th' = [th EXCEPT ![t].pc = "gm_http"]
  /\ UNCHANGED <<dict_cache, ai_cache, ai_lock, clock, configured, nreq, aiHist>>

GmHttpStoresUnlocked(t, resp) ==
  /\ th[t].pc = "gm_http"
  /\ th' = [th EXCEPT ![t].pc = "gm_store",
                      ![t].r = resp,
                      ![t].meaning = ExtractMeaning(resp),
                      ![t].gmHttp = TRUE,
                      ![t].nDict = @ + 1]
  /\ UNCHANGED <<dict_cache, ai_cache, dict_lock, ai_lock, clock, configured,
                 nreq, gmHist, aiHist>>

\* lines 66-79: the external lookup answers resp
GmHttp(t, resp) ==
  /\ th[t].pc = "gm_http"
  /\ th' = [th EXCEPT ![t].pc = "gm_acq2",
                      ![t].r = resp,
                      ![t].meaning = ExtractMeaning(resp),
                      ![t].gmHttp = TRUE,
                      ![t].nDict = @ + 1]
  /\ UNCHANGED <<dict_cache, ai_cache, dict_lock, ai_lock, clock, configured,
                 nreq, gmHist, aiHist>>

StoredSkipsFailures(cache, wl, meaning) ==
  IF meaning = Sentinel THEN cache ELSE Put(cache, wl, meaning)

\* line 82: _dict_cache[wl] = meaning
Stored(cache, wl, meaning) == Put(cache, wl, meaning)

\* lines 82-83
GmStore(t) ==
  /\ th[t].pc = "gm_store"
  /\ dict_lock' = 0
  /\ dict_cache' = Stored(dict_cache, th[t].wl, th[t].meaning)
  /\ gmHist' = Put(gmHist, th[t].wl, th[t].meaning)
  /\ SetLocalsAfter(t, AfterGetMeaning(th[t], th[t].meaning),
                    Put(gmHist, th[t].wl, th[t].meaning))
  /\ UNCHANGED <<ai_cache, ai_lock, clock, configured, nreq, aiHist>>

\* line 89 and line 150: with _ai_cache_lock
AiAcquire(t) ==
  /\ th[t].pc \in {"ai_acq1", "ai_acq2"}
  /\ ai_lock = 0
  /\ ai_lock' = t
  /\ th' = [th EXCEPT ![t].pc = IF @ = "ai_acq1" THEN "ai_check" ELSE "ai_store"]
  /\ UNCHANGED <<dict_cache, ai_cache, dict_lock, clock, configured, nreq,
                 gmHist, aiHist>>

\* line 91: entry and (now - entry["ts"]) < AI_CACHE_TTL
IsFresh(now, ts) == now - ts < AI_CACHE_TTL

\* lines 90-97
AiCheck(t) ==
  /\ th[t].pc = "ai_check"
  /\ ai_lock' = 0
  /\ LET l == [th[t] EXCEPT !.expired = th[t].cache_key \in DOMAIN ai_cache]
     IN  IF l.cache_key \in DOMAIN ai_cache
            /\ IsFresh(l.now, ai_cache[l.cache_key].ts)
         THEN SetLocals(t, [l EXCEPT !.pc = "done", !.status = 200, !.hit = TRUE,
                                     !.expired = FALSE,
                                     !.response = ai_cache[l.cache_key].data])
         ELSE IF configured
              THEN SetLocals(t, [l EXCEPT !.pc = "ai_model"])
              ELSE SetLocals(t, AfterModel(l, <<>>))
  /\ UNCHANGED <<dict_cache, ai_cache, dict_lock, clock, configured, nreq,
                 gmHist, aiHist>>

\* the JSON list the model answered, for the history
AnswerOf(outcome) ==
  IF outcome.kind = "text" /\ outcome.json.t = "list"
  THEN [some |-> TRUE, items |-> outcome.json.items]
  ELSE NoCall

\* lines 112-135: the model call ends with outcome
AiModel(t, outcome) ==
  /\ th[t].pc = "ai_model"
  /\ SetLocals(t, AfterModel([th[t] EXCEPT !.nModel = @ + 1,
                                           !.modelExc = (outcome.kind = "exc"),
                                           !.answer = AnswerOf(outcome)],
                              GuessesOf(outcome)))
  /\ UNCHANGED <<dict_cache, ai_cache, dict_lock, ai_lock, clock, configured,
                 nreq, gmHist, aiHist>>

\* lines 151-153
AiStore(t) ==
  /\ th[t].pc = "ai_store"
  /\ ai_lock' = 0
  /\ ai_cache' = Put(ai_cache, th[t].cache_key,
                     [ts |-> th[t].now, data |-> th[t].enriched])
  /\ th' = [th EXCEPT ![t].pc = "done", ![t].status = 200,
                      ![t].response = th[t].enriched]
  /\ UNCHANGED <<dict_cache, dict_lock, clock, configured, nreq, gmHist, aiHist>>

\* the route's answer leaves; the thread is free for the next request
Return(t) ==
  /\ th[t].pc \in {"done", "raised"}
  /\ th' = [th EXCEPT ![t] = IdleLocals]
  /\ aiHist' = IF th[t].op = "clue" /\ th[t].cache_key # <<>>
               THEN Put(aiHist, <<th[t].clue, th[t].pattern>>,
                        [some |-> TRUE, start |-> th[t].now,
                         returned |-> th[t].pc = "done",
                         data |-> th[t].response])
               ELSE aiHist
  /\ UNCHANGED <<dict_cache, ai_cache, dict_lock, ai_lock, clock, configured,
                 nreq, gmHist>>

\* time passes
Tick ==
  /\ clock < MaxTime
  /\ clock' = clock + 1
  /\ UNCHANGED <<dict_cache, ai_cache, dict_lock, ai_lock, configured, th,
                 nreq, gmHist, aiHist>>

(***************************************************************************)
(* Inputs.                                                                 *)
(***************************************************************************)
\* the "pattern" field of /solve bodies
SolveFields ==
  { JNull, JStr(<<>>), JStr(<<" ">>), JStr(<<" ", "\t">>),
    JStr(<<"c","_","t">>), JStr(<<"C","?","T">>), JStr(<<"c","?","?">>),
    JStr(<<" ","c","a","t"," ">>), JStr(<<"c","?">>) }

\* the "clue" field of /solve_clue bodies
ClueFields == { JNull, JStr(<<" ">>), JStr(<<"x">>) }

\* the "pattern" field of /solve_clue bodies
CluePatternFields ==
  { JNull, JStr(<<"c","?","t">>), JStr(<<"c","a","?","?">>),
    JStr(<<"?","?","?","?","?">>) }

FelineText == <<"f","e","l","i","n","e">>

\* well-typed elements of the JSON list the model may answer
GuessCat == JObj([word |-> JStr(<<"c","a","t">>), meaning |-> JStr(FelineText)])
GuessCotWeak ==
  JObj([word |-> JStr(<<"C","o","t">>), meaning |-> JStr(<<" ","b","e","d"," ">>)])
GuessCarNoMeaning == JObj([word |-> JStr(<<"c","a","r">>)])
GuessCarMarker ==
  JObj([word |-> JStr(<<"c","a","r">>), meaning |-> JStr(<<" ">> \o AiErrorText)])
GuessCatPadded ==
  JObj([word |-> JStr(<<"c","a","t"," ">>), meaning |-> JStr(FelineText)])
GuessCatNewline ==
  JObj([word |-> JStr(<<"c","a","t","\n">>), meaning |-> JStr(FelineText)])
GuessNoWord == JObj([meaning |-> JStr(FelineText)])
GuessBlankWord == JObj([word |-> JStr(<<" ">>), meaning |-> JNull])
\* elements of another shape
GuessNullWord == JObj([word |-> JNull, meaning |-> JStr(FelineText)])
GuessNumWord == JObj([word |-> JNum(5), meaning |-> JStr(FelineText)])
GuessNullMeaning == JObj([word |-> JStr(<<"c","a","t">>), meaning |-> JNull])
GuessNotObject == JStr(<<"c","a","t">>)

\* the JSON lists the model answers with well-typed elements
WellTypedLists ==
  { <<>>, <<GuessCat>>, <<GuessCotWeak>>, <<GuessCarNoMeaning>>,
    <<GuessCarMarker>>, <<GuessCatPadded>>, <<GuessNoWord>>, <<GuessBlankWord>>,
    <<GuessCotWeak, GuessCat>>, <<GuessNoWord, GuessCarMarker>> }

\* the JSON lists the model answers with an element of another shape
MalformedLists ==
  { <<GuessNullWord>>, <<GuessNumWord>>, <<GuessNullMeaning>>, <<GuessNotObject>>,
    <<GuessCat, GuessNullMeaning>> }

\* the outcomes of the model call
ModelOutcomes ==
  { ModelException, ModelText(Raised), ModelText(JObj([answer |-> JNull])),
    ModelText(JList(<<GuessCatNewline>>)) }
  \cup { ModelText(JList(gs)) : gs \in WellTypedLists \cup MalformedLists }

\* the outcomes of the model call that json.loads turns into well-typed lists
WellTypedOutcomes ==
  { ModelException } \cup { ModelText(JList(gs)) : gs \in WellTypedLists }

\* the dictionary service's answers while clues are resolved
ClueResponses ==
  { RespException, GoodResponse,
    RespHttp(200, EntryWithDefinition(JObj([definition |-> JNull]))) }

(***************************************************************************)
(* Specifications.                                                         *)
(***************************************************************************)
Init ==
  /\ dict_cache = EmptyMap
  /\ ai_cache = EmptyMap
  /\ dict_lock = 0
  /\ ai_lock = 0
  /\ clock = 0
  /\ configured \in BOOLEAN
  /\ th = [t \in Threads |-> IdleLocals]
  /\ nreq = 0
  /\ gmHist = EmptyMap
  /\ aiHist = EmptyMap

\* /solve requests, one at a time
NextSolve ==
  \E t \in Threads :
    \/ Serial(t) /\ \E f \in SolveFields : SolveRequest(t, f)
    \/ GmAcquire(t)
    \/ GmCheck(t)
    \/ \E r \in Responses : GmHttp(t, r)
    \/ GmStore(t)
    \/ Return(t)

SpecSolve == Init /\ [][NextSolve]_vars

(***************************************************************************)
(* Properties of the pattern matcher and the definition cache.             *)
(***************************************************************************)
\* the matching rule of the pattern matcher's contract: same length, and at
\* every position a wildcard marker or the word's character after lowercasing
WildcardMatch(P, W) ==
  /\ Len(W) = Len(P)
  /\ \A i \in 1..Len(P) : P[i] \in {"_", "?"} \/ LowerChar(P[i]) = LowerChar(W[i])

InSeq(x, xs) == \E i \in 1..Len(xs) : xs[i] = x

\* find_matches_with_meanings has been called by thread t
InFindMatches(t) == th[t].fmRet # "none"

\* C1: a word of the Word Index is in the match set of find_matches_with_meanings(P),
\* before truncation, exactly when it has P's length and agrees with P at every
\* position that is not a wildcard marker ('_' or '?')
C1_MatchSetIsWildcardMatch ==
  \A t \in Threads :
    InFindMatches(t) =>
      \A i \in 1..Len(WORD_LIST) :
        InSeq(WORD_LIST[i], th[t].matched)
          <=> WildcardMatch(th[t].pattern.s, WORD_LIST[i])

\* C4: once a get_meaning call for a word has returned, a later call for that
\* word returns the same value and performs no HTTP request
C4_GetMeaningIdempotent ==
  \A t \in Threads :
    (th[t].gmLast.some /\ th[t].gmLast.prior.some) =>
      /\ th[t].gmLast.value = th[t].gmLast.prior.value
      /\ ~th[t].gmLast.http

\* a get_meaning call has returned, for a word written in another letter case,
\* the sentinel an earlier failed lookup had left
C4_Witness ==
  \E t \in Threads :
    /\ th[t].gmLast.some /\ th[t].gmLast.prior.some
    /\ th[t].gmLast.value = Sentinel
    /\ th[t].gmLast.wl = Lower(th[t].word)
    /\ th[t].word # th[t].gmLast.wl

\* C5: every failed lookup makes get_meaning hold the sentinel, which is what
\* it stores and returns
C5_FailureYieldsSentinel ==
  \A t \in Threads :
    (th[t].pc \in {"gm_acq2", "gm_store"} /\ th[t].r \in FailureResponses) =>
      th[t].meaning = Sentinel

\* C7: the result of find_matches_with_meanings(P) is the first
\* min(PATTERN_RESULT_LIMIT, number of matches) words of the ordered match
\* sequence
C7_ResultIsTruncatedPrefix ==
  \A t \in Threads :
    (th[t].op = "solve" /\ th[t].pc = "done" /\ InFindMatches(t)) =>
      LET full == MatchSeq(th[t].pattern.s)
          n == IF Len(full) < PATTERN_RESULT_LIMIT THEN Len(full)
               ELSE PATTERN_RESULT_LIMIT
      IN  /\ Len(th[t].response) = n
          /\ Len(th[t].response) <= PATTERN_RESULT_LIMIT
          /\ \A i \in 1..n : th[t].response[i].word = full[i]

\* a result that the limit has cut
C7_Witness ==
  \E t \in Threads :
    /\ th[t].op = "solve" /\ th[t].pc = "done" /\ InFindMatches(t)
    /\ Len(MatchSeq(th[t].pattern.s)) > PATTERN_RESULT_LIMIT
    /\ Len(th[t].response) = PATTERN_RESULT_LIMIT

\* /solve_clue requests with a clue, one at a time
NextClue ==
  \/ \E t \in Threads :
       \/ Serial(t) /\ \E p \in CluePatternFields : ClueRequest(t, JStr(<<"x">>), p)
       \/ AiAcquire(t)
       \/ AiCheck(t)
       \/ \E o \in ModelOutcomes : AiModel(t, o)
       \/ AiStore(t)
       \/ GmAcquire(t)
       \/ GmCheck(t)
       \/ \E r \in ClueResponses : GmHttp(t, r)
       \/ GmStore(t)
       \/ Return(t)
  \/ Tick

SpecClue == Init /\ [][NextClue]_vars

\* the dictionary service answers or fails
PlainResponses == { RespException, GoodResponse }

\* /solve_clue requests with a clue and a model that answers well-typed
\* lists, one at a time
NextEnrich ==
  \/ \E t \in Threads :
       \/ Serial(t) /\ \E p \in {JNull, JStr(<<"c","?","t">>)} :
                       ClueRequest(t, JStr(<<"x">>), p)
       \/ AiAcquire(t)
       \/ AiCheck(t)
       \/ \E o \in WellTypedOutcomes : AiModel(t, o)
       \/ AiStore(t)
       \/ GmAcquire(t)
       \/ GmCheck(t)
       \/ \E r \in PlainResponses : GmHttp(t, r)
       \/ GmStore(t)
       \/ Return(t)
  \/ Tick

SpecEnrich == Init /\ [][NextEnrich]_vars

\* requests to both routes, blank ones among them, one at a time
NextRoutes ==
  \E t \in Threads :
    \/ Serial(t) /\ \E f \in {JNull, JStr(<<>>), JStr(<<" ">>), JStr(<<" ", "\t">>),
                            JStr(<<"C","?","T">>)} : SolveRequest(t, f)
    \/ Serial(t) /\ \E c \in ClueFields, p \in {JNull, JStr(<<" ">>), JStr(<<"c","?","t">>)} :
                    ClueRequest(t, c, p)
    \/ AiAcquire(t)
    \/ AiCheck(t)
    \/ \E o \in {ModelException, ModelText(JList(<<GuessCat>>))} : AiModel(t, o)
    \/ AiStore(t)
    \/ GmAcquire(t)
    \/ GmCheck(t)
    \/ \E r \in PlainResponses : GmHttp(t, r)
    \/ GmStore(t)
    \/ Return(t)

SpecRoutes == Init /\ [][NextRoutes]_vars

(***************************************************************************)
(* Properties of the clue resolver and the routes.                         *)
(***************************************************************************)
\* a call of ai_guess_clue by thread t that computed its result
FreshCall(t) == th[t].op = "clue" /\ th[t].cache_key # <<>> /\ ~th[t].hit

\* the first min(PATTERN_RESULT_LIMIT, n) words find_matches_with_meanings keeps
KeptMatches(P) ==
  LET full == MatchSeq(P)
  IN  SubSeq(full, 1, IF Len(full) < PATTERN_RESULT_LIMIT THEN Len(full)
                      ELSE PATTERN_RESULT_LIMIT)

\* C2: without a configured model, or when the model call raises, a fresh
\* ai_guess_clue(clue, pattern) with a pattern returns the words of
\* find_matches_with_meanings(pattern), in order, each with its dictionary meaning
C2_FallbackEqualsFindMatches ==
  \A t \in Threads :
    ( /\ FreshCall(t) /\ th[t].pc = "done" /\ Truthy(th[t].pattern)
      /\ (~configured \/ th[t].modelExc) ) =>
      LET kept == KeptMatches(th[t].pattern.s)
      IN  /\ Len(th[t].response) = Len(kept)
          /\ \A i \in 1..Len(kept) :
               /\ th[t].response[i].word = kept[i]
               /\ kept[i] \in DOMAIN dict_cache
               /\ th[t].response[i].meaning = dict_cache[kept[i]]

\* C3: a call of ai_guess_clue that starts less than AI_CACHE_TTL after an
\* earlier call with the same clue and pattern issues no model request and no
\* dictionary request, and returns what the earlier call returned
C3_SecondCallServedFromCache ==
  \A t \in Threads :
    ( /\ th[t].op = "clue" /\ th[t].prev.some
      /\ th[t].now - th[t].prev.start < AI_CACHE_TTL ) =>
      /\ th[t].nModel = 0
      /\ th[t].nDict = 0
      /\ th[t].pc # "raised"
      /\ th[t].pc = "done" =>
           (th[t].prev.returned /\ th[t].response = th[t].prev.data)

\* C6: whatever the model call yields, ai_guess_clue raises no exception to
\* the request handler
C6_NoExceptionReachesHandler ==
  \A t \in Threads : th[t].op = "clue" => th[t].pc # "raised"

\* C8: every word ai_guess_clue returns for a pattern matches that pattern
C8_ReturnedWordsMatchPattern ==
  \A t \in Threads :
    (th[t].op = "clue" /\ th[t].pc = "done" /\ Truthy(th[t].pattern)) =>
      \A i \in 1..Len(th[t].response) :
        WildcardMatch(th[t].pattern.s, th[t].response[i].word)

\* the candidates whose word is not empty after trimming
RECURSIVE Survivors(_)
Survivors(gs) ==
  IF gs = <<>> THEN <<>>
  ELSE (IF "word" \in DOMAIN gs[1].fields /\ gs[1].fields["word"].t = "str"
           /\ Strip(gs[1].fields["word"].s) # <<>>
        THEN <<gs[1]>> ELSE <<>>) \o Survivors(Tail(gs))

\* the candidate's meaning is absent, shorter than 5 characters after
\* trimming, or starts (in any letter case) with the AI-error marker
MeaningIsMissingOrWeak(g) ==
  \/ "meaning" \notin DOMAIN g.fields
  \/ Len(Strip(g.fields["meaning"].s)) <= 4
  \/ LET m == Lower(Strip(g.fields["meaning"].s))
     IN  Len(m) >= 8 /\ SubSeq(m, 1, 8) = <<"a","i"," ","e","r","r","o","r">>

\* C9: in a fresh result every surviving candidate carries get_meaning(word)
\* when its own meaning is missing or weak, and its own trimmed meaning otherwise
C9_WeakMeaningsReplaced ==
  \A t \in Threads :
    (FreshCall(t) /\ th[t].pc = "done") =>
      LET sv == Survivors(th[t].candidates)
      IN  /\ Len(th[t].response) = Len(sv)
          /\ \A i \in 1..Len(sv) :
               LET word == Strip(sv[i].fields["word"].s)
               IN  /\ th[t].response[i].word = word
                   /\ IF MeaningIsMissingOrWeak(sv[i])
                      THEN /\ Lower(word) \in DOMAIN dict_cache
                           /\ th[t].response[i].meaning = dict_cache[Lower(word)]
                      ELSE th[t].response[i].meaning
                             = JStr(Strip(sv[i].fields["meaning"].s))

\* a fresh result with a weak model meaning replaced by the dictionary's and
\* a fresh result that kept the model's meaning
C9_Witness ==
  \E t \in Threads :
    /\ FreshCall(t) /\ th[t].pc = "done" /\ th[t].nModel = 1
    /\ Len(th[t].response) = 1
    /\ "meaning" \in DOMAIN th[t].candidates[1].fields
    /\ MeaningIsMissingOrWeak(th[t].candidates[1])
    /\ th[t].response[1].meaning = JStr(GoodText)

\* the field is absent, empty or whitespace only
AbsentOrBlank(field) ==
  field.t = "null" \/ (field.t = "str" /\ \A i \in 1..Len(field.s) : IsSpace(field.s[i]))

\* the request thread t handles has a blank pattern (/solve) or clue (/solve_clue)
BlankRequest(l) ==
  \/ l.op = "solve" /\ AbsentOrBlank(l.req.pattern)
  \/ l.op = "clue" /\ AbsentOrBlank(l.req.clue)

C11_EntryCarriesStoreTime ==
  [][ \A t \in Threads :
        (th[t].pc = "ai_store" /\ th'[t].pc = "done") =>
          ai_cache'[th[t].cache_key].ts = clock ]_vars

\* no entry of the model's list has a word that matches the pattern P
NoWordMatches(items, P) ==
  \A i \in 1..Len(items) :
    ~ ( /\ items[i].t = "obj"
        /\ "word" \in DOMAIN items[i].fields
        /\ items[i].fields["word"].t = "str"
        /\ WildcardMatch(P, items[i].fields["word"].s) )

\* the trimmed words of the model's entries
ModelWords(items) ==
  { Strip(items[i].fields["word"].s) :
      i \in { j \in 1..Len(items) :
                /\ items[j].t = "obj"
                /\ "word" \in DOMAIN items[j].fields
                /\ items[j].fields["word"].t = "str" } }

\* the model answered thread t's call with a non-empty list
ModelAnswered(t) ==
  th[t].op = "clue" /\ th[t].answer.some /\ th[t].answer.items # <<>>

\* C12: when the model returns a non-empty list of which no word matches the
\* supplied pattern, ai_guess_clue returns find_matches_with_meanings(pattern);
\* without a pattern the result holds model-derived entries only
C12_FallbackWhenNothingMatches ==
  \A t \in Threads :
    ModelAnswered(t) =>
      IF Truthy(th[t].pattern)
      THEN NoWordMatches(th[t].answer.items, th[t].pattern.s) =>
             /\ th[t].pc # "raised"
             /\ th[t].pc = "done" =>
                  LET kept == KeptMatches(th[t].pattern.s)
                  IN  /\ Len(th[t].response) = Len(kept)
                      /\ \A i \in 1..Len(kept) :
                           /\ th[t].response[i].word = kept[i]
                           /\ kept[i] \in DOMAIN dict_cache
                           /\ th[t].response[i].meaning = dict_cache[kept[i]]
      ELSE th[t].pc = "done" =>
             \A i \in 1..Len(th[t].response) :
               th[t].response[i].word \in ModelWords(th[t].answer.items)

\* C13: a call of ai_guess_clue that starts at time t is served the stored
\* sequence only if t minus the entry's time stamp is less than AI_CACHE_TTL;
\* a call that finds the entry expired recomputes the result and overwrites
\* the entry
C13_ExpiredEntryNeverServed ==
  \A t \in Threads :
    /\ th[t].hit =>
         /\ th[t].cache_key \in DOMAIN ai_cache
         /\ th[t].now - ai_cache[th[t].cache_key].ts < AI_CACHE_TTL
         /\ th[t].response = ai_cache[th[t].cache_key].data
    /\ (th[t].expired /\ th[t].pc \in {"done", "raised"}) =>
         /\ th[t].pc = "done"
         /\ th[t].nModel = (IF configured THEN 1 ELSE 0)
         /\ ai_cache[th[t].cache_key].data = th[t].response

(***************************************************************************)
(* Concurrent request threads.                                             *)
(***************************************************************************)
\* what the model answers while requests run concurrently
ConcOutcomes == { ModelText(JList(<<GuessCarNoMeaning>>)) }

\* the steps of thread t after its request has arrived
ThreadStep(t) ==
  \/ AiAcquire(t)
  \/ AiCheck(t)
  \/ \E o \in ConcOutcomes : AiModel(t, o)
  \/ AiStore(t)
  \/ GmAcquire(t)
  \/ GmCheck(t)
  \/ \E r \in PlainResponses : GmHttp(t, r)
  \/ GmStore(t)
  \/ Return(t)

\* /solve_clue and /solve requests on concurrent threads
NextConc ==
  \E t \in Threads :
    \/ ClueRequest(t, JStr(<<"x">>), JNull)
    \/ SolveRequest(t, JStr(<<"c","?","t">>))
    \/ ThreadStep(t)

SpecConc == Init /\ [][NextConc]_vars

\* the same, every thread that can take a step eventually taking one, and
\* every external call returning or timing out
SpecConcFair == SpecConc /\ \A t \in Threads : WF_vars(ThreadStep(t))

\* thread t is reading or writing _dict_cache
InDictCache(t) == th[t].pc \in {"gm_check", "gm_store"}

\* thread t is reading or writing _ai_cache
InAiCache(t) == th[t].pc \in {"ai_check", "ai_store"}

\* C14: a thread reads or writes the definition cache only while it holds
\* _dict_cache_lock and the clue cache only while it holds _ai_cache_lock, so
\* no two threads are in the same cache at the same time
C14_CacheAccessUnderLock ==
  /\ \A t \in Threads : InDictCache(t) => dict_lock = t
  /\ \A t \in Threads : InAiCache(t) => ai_lock = t
  /\ \A t, u \in Threads :
       t # u => /\ ~(InDictCache(t) /\ InDictCache(u))
                /\ ~(InAiCache(t) /\ InAiCache(u))

\* a thread about to store a meaning while another waits to store one, too
C14_Witness ==
  \E t, u \in Threads :
    /\ t # u
    /\ th[t].pc = "gm_store" /\ dict_lock = t
    /\ th[u].pc = "gm_acq2"
    /\ th[u].wl = th[t].wl

\* C15: once the definition cache holds an entry for a word, the entry is
\* never removed and its value never changes
C15_DictEntryNeverChanges ==
  [][ \A w \in DOMAIN dict_cache :
        w \in DOMAIN dict_cache' /\ dict_cache'[w] = dict_cache[w] ]_vars

\* thread t is in an external call or waits for a lock
AtExternalOrAcquire(t) ==
  th[t].pc \in {"gm_http", "ai_model", "gm_acq1", "gm_acq2", "ai_acq1", "ai_acq2"}

\* C17: a thread in a model or dictionary call, or acquiring a cache lock,
\* holds no cache lock, and every call of get_meaning and ai_guess_clue that
\* has begun comes to its end
C17_NoLockAcrossExternalCalls ==
  /\ [](\A t \in Threads :
          /\ AtExternalOrAcquire(t) => (dict_lock # t /\ ai_lock # t)
          /\ ~(dict_lock = t /\ ai_lock = t))
  /\ \A t \in Threads :
       (th[t].pc # "idle") ~> (th[t].pc \in {"done", "raised"})

\* a thread in the dictionary call while another thread holds the
\* definition cache's lock
C17_Witness ==
  \E t, u \in Threads :
    /\ t # u
    /\ th[t].pc = "gm_http" /\ th[t].op = "clue"
    /\ dict_lock = u

(***************************************************************************)
(* The clue cache's keys.                                                  *)
(***************************************************************************)
\* "clue" and "pattern" fields with the character the key is joined with
KeyClueFields == { JStr(<<"a","|","b">>), JStr(<<"A","|","b">>), JStr(<<"a">>) }
KeyPatternFields == { JNull, JStr(<<"b","|">>) }

\* /solve_clue requests whose clue or pattern holds a '|', one at a time
NextKeys ==
  \E t \in Threads :
    \/ Serial(t) /\ \E c \in KeyClueFields, p \in KeyPatternFields :
                      ClueRequest(t, c, p)
    \/ AiAcquire(t)
    \/ AiCheck(t)
    \/ \E o \in { ModelText(JList(<<GuessCat>>)),
                  ModelText(JList(<<GuessCarNoMeaning>>)) } : AiModel(t, o)
    \/ AiStore(t)
    \/ GmAcquire(t)
    \/ GmCheck(t)
    \/ \E r \in PlainResponses : GmHttp(t, r)
    \/ GmStore(t)
    \/ Return(t)

SpecKeys == Init /\ [][NextKeys]_vars

\* two calls have the same (trimmed, lowercased clue; trimmed, lowercased
\* pattern) pair; the handler has trimmed both
SamePair(clue1, pattern1, clue2, pattern2) ==
  /\ Lower(clue1) = Lower(clue2)
  /\ Lower(OrEmpty(pattern1).s) = Lower(OrEmpty(pattern2).s)

\* C16: ai_guess_clue(c1, p1) is served from the clue cache only a result
\* that a call with the same (trimmed, lowercased) pair computed
C16_NoSharedEntry ==
  \A t \in Threads :
    th[t].hit =>
      \E k \in DOMAIN aiHist :
        /\ SamePair(k[1], k[2], th[t].clue, th[t].pattern)
        /\ aiHist[k].returned

=============================================================================
